---------------------------- MODULE Spec2Model ----------------------------
(***************************************************************************)
(* Model of the analysis part of src/main.py: the rule engine              *)
(* (infer_undertone, undertone_to_season, season_palette,                  *)
(* analyze_personal_color, analyze_sensitivity) and the three analysis     *)
(* endpoints with their audit logging (save_log).                          *)
(*                                                                         *)
(* Three specifications are given.  SpecEngine draws one engine call and   *)
(* its argument from the whole (bounded) input domain and applies the      *)
(* function.  Spec is the gateway: worker threads of the server each run   *)
(* one endpoint handler at a time, step by step and interleaved.           *)
(* SpecConcurrent runs the engine calls of concurrent requests statement   *)
(* by statement on each call's local variables.                            *)
(***************************************************************************)
EXTENDS Integers, Sequences, FiniteSets, TLC

VARIABLES
    fn,             \* SpecEngine: the engine function being called
    arg,            \* SpecEngine: its argument (the request object)
    ret,            \* SpecEngine: its return value, NoneObj before the call
    supabase,       \* module global `supabase`: TRUE iff a client was created
    pc,             \* per worker: position of the handler it runs
    kind,           \* per worker: endpoint being served
    req,            \* per worker: the validated request object
    res,            \* per worker: the handler's local `res`
    insert,         \* per worker: state of the analysis_logs insert of save_log
    response,       \* per worker: what the caller receives
    analysis_logs,  \* rows of the external table analysis_logs
    served,         \* (kind, request, response) of every answered request
    nreq,           \* number of requests received so far
    locals          \* SpecConcurrent: per worker, the locals of the call it runs

vars == <<fn, arg, ret, supabase, pc, kind, req, res, insert, response,
          analysis_logs, served, nreq, locals>>

engineVars == <<fn, arg, ret>>
gatewayVars == <<supabase, pc, kind, req, res, insert, response,
                 analysis_logs, served, nreq, locals>>

(***************************************************************************)
(* Bounds of the model.                                                    *)
(***************************************************************************)
MaxReactions == 2   \* longest ingredients_reactions list drawn by SpecEngine
NumWorkers == 2     \* concurrent handler threads in Spec
MaxRequests == 2    \* requests received in one behaviour of Spec
MaxCalls == 3       \* requests received in one behaviour of SpecConcurrent

(***************************************************************************)
(* Python values.  None is Python's None in a slot that otherwise holds a  *)
(* string; NoneObj is Python's None in a slot that otherwise holds a model *)
(* object (TLC does not compare a record with a string).                   *)
(***************************************************************************)
None == "None"
NoneObj == [is_none |-> TRUE]

Optional(S) == S \cup {None}

Undertone == {"cool", "warm", "neutral"}
SkinType == {"dry", "oily", "combination", "sensitive", "normal"}
SkinTone == {"fair", "light", "medium", "tan", "deep"}
VeinColor == {"blue", "green", "mixed"}
JewelryPreference == {"silver", "gold", "both"}
Season == {"spring", "summer", "autumn", "winter"}

\* class PersonalColorRequest; PersonalColorRequest() is all defaults.
PersonalColorRequest(user_id, skin_tone, vein_color, jewelry_preference, undertone_hint) ==
    [user_id |-> user_id, skin_tone |-> skin_tone, vein_color |-> vein_color,
     jewelry_preference |-> jewelry_preference, undertone_hint |-> undertone_hint]

PersonalColorRequestDefault == PersonalColorRequest(None, None, None, None, None)

\* class PersonalColorResult
PersonalColorResult(undertone, season, palette) ==
    [undertone |-> undertone, season |-> season, palette |-> palette]

\* class SensitivityRequest; SensitivityRequest() is all defaults.
SensitivityRequest(user_id, skin_type, ingredients_reactions, fragrance_sensitive, acne_prone) ==
    [user_id |-> user_id, skin_type |-> skin_type,
     ingredients_reactions |-> ingredients_reactions,
     fragrance_sensitive |-> fragrance_sensitive, acne_prone |-> acne_prone]

SensitivityRequestDefault == SensitivityRequest(None, None, <<>>, FALSE, FALSE)

\* class SensitivityResult
SensitivityResult(flags, avoid_ingredients, notes) ==
    [flags |-> flags, avoid_ingredients |-> avoid_ingredients, notes |-> notes]

\* class ComprehensiveRequest
ComprehensiveRequest(user_id, personal, sensitivity) ==
    [user_id |-> user_id, personal |-> personal, sensitivity |-> sensitivity]

\* class ComprehensiveResult; recommendations is a dict, modelled as its set
\* of <<key, value>> items.
ComprehensiveResult(user_id, personal, sensitivity, recommendations) ==
    [user_id |-> user_id, personal |-> personal, sensitivity |-> sensitivity,
     recommendations |-> recommendations]

(***************************************************************************)
(* Python strings.  CodePoints gives the code points of every string the   *)
(* engine folds or sorts; str.lower() and the ordering used by sorted()    *)
(* are computed on them.                                                   *)
(***************************************************************************)
CodePoints ==
     "fragrance" :> <<102, 114, 97, 103, 114, 97, 110, 99, 101>> @@
     "heavy oils" :> <<104, 101, 97, 118, 121, 32, 111, 105, 108, 115>> @@
     "isopropyl myristate" :> <<105, 115, 111, 112, 114, 111, 112, 121, 108, 32, 109, 121, 114, 105, 115, 116, 97, 116, 101>> @@
     "high alcohol" :> <<104, 105, 103, 104, 32, 97, 108, 99, 111, 104, 111, 108>> @@
     "heavy occlusives" :> <<104, 101, 97, 118, 121, 32, 111, 99, 99, 108, 117, 115, 105, 118, 101, 115>> @@
     "strong AHA/BHA" :> <<115, 116, 114, 111, 110, 103, 32, 65, 72, 65, 47, 66, 72, 65>> @@
     "retinoid (high)" :> <<114, 101, 116, 105, 110, 111, 105, 100, 32, 40, 104, 105, 103, 104, 41>> @@
     "alcohol" :> <<97, 108, 99, 111, 104, 111, 108>> @@
     "strong AHA" :> <<115, 116, 114, 111, 110, 103, 32, 65, 72, 65>> @@
     "FRAGRANCE" :> <<70, 82, 65, 71, 82, 65, 78, 67, 69>> @@
     "Alcohol" :> <<65, 108, 99, 111, 104, 111, 108>> @@
     "AHA" :> <<65, 72, 65>> @@
     "aha" :> <<97, 104, 97>> @@
     "Pore Clogging" :> <<80, 111, 114, 101, 32, 67, 108, 111, 103, 103, 105, 110, 103>> @@
     "pore clogging" :> <<112, 111, 114, 101, 32, 99, 108, 111, 103, 103, 105, 110, 103>> @@
     "retinol" :> <<114, 101, 116, 105, 110, 111, 108>> @@
     "strong aha" :> <<115, 116, 114, 111, 110, 103, 32, 97, 104, 97>> @@
     "strong aha/bha" :> <<115, 116, 114, 111, 110, 103, 32, 97, 104, 97, 47, 98, 104, 97>>

\* The simple lower-case mappings of str.lower() (Unicode 14, the data of
\* CPython 3.11): <<lo, hi, step, delta>> says that every code point
\* lo, lo + step, ..., hi has the lower case c + delta.  A code point in no
\* range is its own lower case.
LowerRanges == <<
    <<65, 90, 1, 32>>, <<192, 214, 1, 32>>, <<216, 222, 1, 32>>, <<256, 302, 2, 1>>,
    <<306, 310, 2, 1>>, <<313, 327, 2, 1>>, <<330, 374, 2, 1>>, <<376, 376, 1, -121>>,
    <<377, 381, 2, 1>>, <<385, 385, 1, 210>>, <<386, 388, 2, 1>>, <<390, 390, 1, 206>>,
    <<391, 391, 1, 1>>, <<393, 394, 1, 205>>, <<395, 395, 1, 1>>, <<398, 398, 1, 79>>,
    <<399, 399, 1, 202>>, <<400, 400, 1, 203>>, <<401, 401, 1, 1>>, <<403, 403, 1, 205>>,
    <<404, 404, 1, 207>>, <<406, 406, 1, 211>>, <<407, 407, 1, 209>>, <<408, 408, 1, 1>>,
    <<412, 412, 1, 211>>, <<413, 413, 1, 213>>, <<415, 415, 1, 214>>, <<416, 420, 2, 1>>,
    <<422, 422, 1, 218>>, <<423, 423, 1, 1>>, <<425, 425, 1, 218>>, <<428, 428, 1, 1>>,
    <<430, 430, 1, 218>>, <<431, 431, 1, 1>>, <<433, 434, 1, 217>>, <<435, 437, 2, 1>>,
    <<439, 439, 1, 219>>, <<440, 440, 1, 1>>, <<444, 444, 1, 1>>, <<452, 452, 1, 2>>,
    <<453, 453, 1, 1>>, <<455, 455, 1, 2>>, <<456, 456, 1, 1>>, <<458, 458, 1, 2>>,
    <<459, 475, 2, 1>>, <<478, 494, 2, 1>>, <<497, 497, 1, 2>>, <<498, 500, 2, 1>>,
    <<502, 502, 1, -97>>, <<503, 503, 1, -56>>, <<504, 542, 2, 1>>, <<544, 544, 1, -130>>,
    <<546, 562, 2, 1>>, <<570, 570, 1, 10795>>, <<571, 571, 1, 1>>, <<573, 573, 1, -163>>,
    <<574, 574, 1, 10792>>, <<577, 577, 1, 1>>, <<579, 579, 1, -195>>, <<580, 580, 1, 69>>,
    <<581, 581, 1, 71>>, <<582, 590, 2, 1>>, <<880, 882, 2, 1>>, <<886, 886, 1, 1>>,
    <<895, 895, 1, 116>>, <<902, 902, 1, 38>>, <<904, 906, 1, 37>>, <<908, 908, 1, 64>>,
    <<910, 911, 1, 63>>, <<913, 929, 1, 32>>, <<931, 939, 1, 32>>, <<975, 975, 1, 8>>,
    <<984, 1006, 2, 1>>, <<1012, 1012, 1, -60>>, <<1015, 1015, 1, 1>>, <<1017, 1017, 1, -7>>,
    <<1018, 1018, 1, 1>>, <<1021, 1023, 1, -130>>, <<1024, 1039, 1, 80>>, <<1040, 1071, 1, 32>>,
    <<1120, 1152, 2, 1>>, <<1162, 1214, 2, 1>>, <<1216, 1216, 1, 15>>, <<1217, 1229, 2, 1>>,
    <<1232, 1326, 2, 1>>, <<1329, 1366, 1, 48>>, <<4256, 4293, 1, 7264>>, <<4295, 4295, 1, 7264>>,
    <<4301, 4301, 1, 7264>>, <<5024, 5103, 1, 38864>>, <<5104, 5109, 1, 8>>, <<7312, 7354, 1, -3008>>,
    <<7357, 7359, 1, -3008>>, <<7680, 7828, 2, 1>>, <<7838, 7838, 1, -7615>>, <<7840, 7934, 2, 1>>,
    <<7944, 7951, 1, -8>>, <<7960, 7965, 1, -8>>, <<7976, 7983, 1, -8>>, <<7992, 7999, 1, -8>>,
    <<8008, 8013, 1, -8>>, <<8025, 8031, 2, -8>>, <<8040, 8047, 1, -8>>, <<8072, 8079, 1, -8>>,
    <<8088, 8095, 1, -8>>, <<8104, 8111, 1, -8>>, <<8120, 8121, 1, -8>>, <<8122, 8123, 1, -74>>,
    <<8124, 8124, 1, -9>>, <<8136, 8139, 1, -86>>, <<8140, 8140, 1, -9>>, <<8152, 8153, 1, -8>>,
    <<8154, 8155, 1, -100>>, <<8168, 8169, 1, -8>>, <<8170, 8171, 1, -112>>, <<8172, 8172, 1, -7>>,
    <<8184, 8185, 1, -128>>, <<8186, 8187, 1, -126>>, <<8188, 8188, 1, -9>>, <<8486, 8486, 1, -7517>>,
    <<8490, 8490, 1, -8383>>, <<8491, 8491, 1, -8262>>, <<8498, 8498, 1, 28>>, <<8544, 8559, 1, 16>>,
    <<8579, 8579, 1, 1>>, <<9398, 9423, 1, 26>>, <<11264, 11311, 1, 48>>, <<11360, 11360, 1, 1>>,
    <<11362, 11362, 1, -10743>>, <<11363, 11363, 1, -3814>>, <<11364, 11364, 1, -10727>>, <<11367, 11371, 2, 1>>,
    <<11373, 11373, 1, -10780>>, <<11374, 11374, 1, -10749>>, <<11375, 11375, 1, -10783>>, <<11376, 11376, 1, -10782>>,
    <<11378, 11378, 1, 1>>, <<11381, 11381, 1, 1>>, <<11390, 11391, 1, -10815>>, <<11392, 11490, 2, 1>>,
    <<11499, 11501, 2, 1>>, <<11506, 11506, 1, 1>>, <<42560, 42604, 2, 1>>, <<42624, 42650, 2, 1>>,
    <<42786, 42798, 2, 1>>, <<42802, 42862, 2, 1>>, <<42873, 42875, 2, 1>>, <<42877, 42877, 1, -35332>>,
    <<42878, 42886, 2, 1>>, <<42891, 42891, 1, 1>>, <<42893, 42893, 1, -42280>>, <<42896, 42898, 2, 1>>,
    <<42902, 42920, 2, 1>>, <<42922, 42922, 1, -42308>>, <<42923, 42923, 1, -42319>>, <<42924, 42924, 1, -42315>>,
    <<42925, 42925, 1, -42305>>, <<42926, 42926, 1, -42308>>, <<42928, 42928, 1, -42258>>, <<42929, 42929, 1, -42282>>,
    <<42930, 42930, 1, -42261>>, <<42931, 42931, 1, 928>>, <<42932, 42946, 2, 1>>, <<42948, 42948, 1, -48>>,
    <<42949, 42949, 1, -42307>>, <<42950, 42950, 1, -35384>>, <<42951, 42953, 2, 1>>, <<42960, 42960, 1, 1>>,
    <<42966, 42968, 2, 1>>, <<42997, 42997, 1, 1>>, <<65313, 65338, 1, 32>>, <<66560, 66599, 1, 40>>,
    <<66736, 66771, 1, 40>>, <<66928, 66964, 2, 39>>, <<66929, 66938, 1, 39>>, <<66941, 66954, 1, 39>>,
    <<66957, 66962, 1, 39>>, <<66965, 66965, 1, 39>>, <<68736, 68786, 1, 64>>, <<71840, 71871, 1, 32>>,
    <<93760, 93791, 1, 32>>, <<125184, 125217, 1, 34>> >>

\* chr(c).lower() as code points: one code point, except for U+0130 (capital
\* I with dot above), which becomes i followed by a combining dot above.
LowerCode(c) ==
    IF c = 304 THEN <<105, 775>>
    ELSE LET hit == {i \in DOMAIN LowerRanges :
                        /\ LowerRanges[i][1] <= c
                        /\ c <= LowerRanges[i][2]
                        /\ (c - LowerRanges[i][1]) % LowerRanges[i][3] = 0}
         IN  IF hit = {} THEN <<c>>
             ELSE <<c + LowerRanges[CHOOSE i \in hit : TRUE][4]>>

\* The code points with the Unicode property Cased, as ranges
\* <<lo, hi, step>>: lo, lo + step, ..., hi.
CasedRanges == <<
    <<65, 90, 1>>, <<97, 122, 1>>, <<170, 170, 1>>, <<181, 181, 1>>, <<186, 186, 1>>,
    <<192, 446, 2>>, <<193, 213, 2>>, <<217, 245, 2>>, <<249, 441, 2>>, <<445, 447, 2>>,
    <<452, 659, 1>>, <<661, 696, 1>>, <<704, 705, 1>>, <<736, 740, 1>>, <<837, 837, 1>>,
    <<880, 883, 1>>, <<886, 887, 1>>, <<890, 893, 1>>, <<895, 895, 1>>, <<902, 928, 2>>,
    <<905, 905, 1>>, <<911, 1153, 2>>, <<932, 1012, 2>>, <<1016, 1152, 2>>, <<1162, 1327, 1>>,
    <<1329, 1366, 1>>, <<1376, 1416, 1>>, <<4256, 4293, 1>>, <<4295, 4295, 1>>, <<4301, 4301, 1>>,
    <<4304, 4346, 1>>, <<4349, 4351, 1>>, <<5024, 5109, 1>>, <<5112, 5117, 1>>, <<7296, 7304, 1>>,
    <<7312, 7354, 1>>, <<7357, 7359, 1>>, <<7424, 7615, 1>>, <<7680, 7957, 1>>, <<7960, 7965, 1>>,
    <<7968, 8005, 1>>, <<8008, 8013, 1>>, <<8016, 8023, 1>>, <<8025, 8061, 2>>, <<8032, 8060, 2>>,
    <<8064, 8116, 1>>, <<8118, 8124, 1>>, <<8126, 8126, 1>>, <<8130, 8140, 2>>, <<8131, 8131, 1>>,
    <<8135, 8139, 2>>, <<8144, 8147, 1>>, <<8150, 8155, 1>>, <<8160, 8172, 1>>, <<8178, 8188, 2>>,
    <<8179, 8179, 1>>, <<8183, 8187, 2>>, <<8305, 8305, 1>>, <<8319, 8319, 1>>, <<8336, 8348, 1>>,
    <<8450, 8450, 1>>, <<8455, 8455, 1>>, <<8458, 8467, 1>>, <<8469, 8469, 1>>, <<8473, 8477, 1>>,
    <<8484, 8492, 2>>, <<8491, 8499, 2>>, <<8496, 8500, 2>>, <<8505, 8505, 1>>, <<8508, 8511, 1>>,
    <<8517, 8521, 1>>, <<8526, 8526, 1>>, <<8544, 8575, 1>>, <<8579, 8580, 1>>, <<9398, 9449, 1>>,
    <<11264, 11492, 1>>, <<11499, 11502, 1>>, <<11506, 11507, 1>>, <<11520, 11557, 1>>, <<11559, 11559, 1>>,
    <<11565, 11565, 1>>, <<42560, 42605, 1>>, <<42624, 42653, 1>>, <<42786, 42887, 1>>, <<42891, 42894, 1>>,
    <<42896, 42954, 1>>, <<42960, 42961, 1>>, <<42963, 42969, 2>>, <<42966, 42968, 2>>, <<42997, 42998, 1>>,
    <<43000, 43002, 1>>, <<43824, 43866, 1>>, <<43868, 43880, 1>>, <<43888, 43967, 1>>, <<64256, 64262, 1>>,
    <<64275, 64279, 1>>, <<65313, 65338, 1>>, <<65345, 65370, 1>>, <<66560, 66639, 1>>, <<66736, 66771, 1>>,
    <<66776, 66811, 1>>, <<66928, 66964, 2>>, <<66929, 66937, 2>>, <<66941, 66953, 2>>, <<66957, 66961, 2>>,
    <<66965, 67003, 2>>, <<66968, 66976, 2>>, <<66980, 66992, 2>>, <<66996, 67000, 2>>, <<67004, 67004, 1>>,
    <<67456, 67456, 1>>, <<67459, 67503, 2>>, <<67460, 67460, 1>>, <<67464, 67514, 2>>, <<67507, 67513, 2>>,
    <<68736, 68786, 1>>, <<68800, 68850, 1>>, <<71840, 71903, 1>>, <<93760, 93823, 1>>, <<119808, 119892, 1>>,
    <<119894, 119964, 1>>, <<119966, 119967, 1>>, <<119970, 119970, 1>>, <<119973, 119974, 1>>, <<119977, 119980, 1>>,
    <<119982, 119993, 1>>, <<119995, 120073, 2>>, <<119998, 120002, 2>>, <<120006, 120068, 2>>, <<120072, 120074, 2>>,
    <<120077, 120084, 1>>, <<120086, 120120, 2>>, <<120087, 120091, 2>>, <<120095, 120125, 2>>, <<120124, 120134, 2>>,
    <<120129, 120131, 2>>, <<120138, 120484, 2>>, <<120139, 120143, 2>>, <<120147, 120485, 2>>, <<120488, 120778, 2>>,
    <<120489, 120511, 2>>, <<120515, 120537, 2>>, <<120541, 120569, 2>>, <<120573, 120595, 2>>, <<120599, 120627, 2>>,
    <<120631, 120653, 2>>, <<120657, 120685, 2>>, <<120689, 120711, 2>>, <<120715, 120743, 2>>, <<120747, 120769, 2>>,
    <<120773, 120779, 2>>, <<122624, 122633, 1>>, <<122635, 122654, 1>>, <<125184, 125251, 1>>, <<127280, 127305, 1>>,
    <<127312, 127337, 1>>, <<127344, 127369, 1>> >>

\* The code points with the Unicode property Case_Ignorable, as ranges
\* <<lo, hi, step>>.
CaseIgnorableRanges == <<
    <<39, 39, 1>>, <<46, 46, 1>>, <<58, 58, 1>>, <<94, 96, 2>>, <<168, 168, 1>>,
    <<173, 175, 2>>, <<180, 180, 1>>, <<183, 184, 1>>, <<688, 879, 1>>, <<884, 885, 1>>,
    <<890, 890, 1>>, <<900, 901, 1>>, <<903, 903, 1>>, <<1155, 1161, 1>>, <<1369, 1369, 1>>,
    <<1375, 1375, 1>>, <<1425, 1469, 1>>, <<1471, 1473, 2>>, <<1474, 1476, 2>>, <<1477, 1479, 2>>,
    <<1524, 1524, 1>>, <<1536, 1541, 1>>, <<1552, 1562, 1>>, <<1564, 1564, 1>>, <<1600, 1600, 1>>,
    <<1611, 1631, 1>>, <<1648, 1648, 1>>, <<1750, 1757, 1>>, <<1759, 1768, 1>>, <<1770, 1773, 1>>,
    <<1807, 1809, 2>>, <<1840, 1866, 1>>, <<1958, 1968, 1>>, <<2027, 2037, 1>>, <<2042, 2042, 1>>,
    <<2045, 2045, 1>>, <<2070, 2093, 1>>, <<2137, 2139, 1>>, <<2184, 2184, 1>>, <<2192, 2193, 1>>,
    <<2200, 2207, 1>>, <<2249, 2306, 1>>, <<2362, 2364, 2>>, <<2369, 2376, 1>>, <<2381, 2381, 1>>,
    <<2385, 2391, 1>>, <<2402, 2403, 1>>, <<2417, 2417, 1>>, <<2433, 2433, 1>>, <<2492, 2492, 1>>,
    <<2497, 2500, 1>>, <<2509, 2509, 1>>, <<2530, 2531, 1>>, <<2558, 2558, 1>>, <<2561, 2562, 1>>,
    <<2620, 2620, 1>>, <<2625, 2626, 1>>, <<2631, 2632, 1>>, <<2635, 2637, 1>>, <<2641, 2641, 1>>,
    <<2672, 2673, 1>>, <<2677, 2677, 1>>, <<2689, 2690, 1>>, <<2748, 2748, 1>>, <<2753, 2757, 1>>,
    <<2759, 2760, 1>>, <<2765, 2765, 1>>, <<2786, 2787, 1>>, <<2810, 2815, 1>>, <<2817, 2817, 1>>,
    <<2876, 2876, 1>>, <<2879, 2883, 2>>, <<2882, 2884, 2>>, <<2893, 2893, 1>>, <<2901, 2902, 1>>,
    <<2914, 2915, 1>>, <<2946, 2946, 1>>, <<3008, 3008, 1>>, <<3021, 3021, 1>>, <<3072, 3072, 1>>,
    <<3076, 3076, 1>>, <<3132, 3136, 2>>, <<3135, 3135, 1>>, <<3142, 3148, 2>>, <<3143, 3143, 1>>,
    <<3147, 3149, 2>>, <<3157, 3158, 1>>, <<3170, 3171, 1>>, <<3201, 3201, 1>>, <<3260, 3260, 1>>,
    <<3263, 3263, 1>>, <<3270, 3270, 1>>, <<3276, 3277, 1>>, <<3298, 3299, 1>>, <<3328, 3329, 1>>,
    <<3387, 3388, 1>>, <<3393, 3396, 1>>, <<3405, 3405, 1>>, <<3426, 3427, 1>>, <<3457, 3457, 1>>,
    <<3530, 3530, 1>>, <<3538, 3540, 1>>, <<3542, 3542, 1>>, <<3633, 3633, 1>>, <<3636, 3642, 1>>,
    <<3654, 3662, 1>>, <<3761, 3761, 1>>, <<3764, 3772, 1>>, <<3782, 3788, 2>>, <<3785, 3789, 2>>,
    <<3864, 3865, 1>>, <<3893, 3897, 2>>, <<3953, 3966, 1>>, <<3968, 3972, 1>>, <<3974, 3975, 1>>,
    <<3981, 4027, 2>>, <<3982, 3990, 2>>, <<3994, 4028, 2>>, <<4038, 4038, 1>>, <<4141, 4144, 1>>,
    <<4146, 4151, 1>>, <<4153, 4154, 1>>, <<4157, 4158, 1>>, <<4184, 4185, 1>>, <<4190, 4192, 1>>,
    <<4209, 4212, 1>>, <<4226, 4226, 1>>, <<4229, 4230, 1>>, <<4237, 4237, 1>>, <<4253, 4253, 1>>,
    <<4348, 4348, 1>>, <<4957, 4959, 1>>, <<5906, 5908, 1>>, <<5938, 5939, 1>>, <<5970, 5971, 1>>,
    <<6002, 6003, 1>>, <<6068, 6069, 1>>, <<6071, 6077, 1>>, <<6086, 6086, 1>>, <<6089, 6099, 1>>,
    <<6103, 6103, 1>>, <<6109, 6109, 1>>, <<6155, 6159, 1>>, <<6211, 6211, 1>>, <<6277, 6278, 1>>,
    <<6313, 6313, 1>>, <<6432, 6434, 1>>, <<6439, 6440, 1>>, <<6450, 6450, 1>>, <<6457, 6459, 1>>,
    <<6679, 6680, 1>>, <<6683, 6683, 1>>, <<6742, 6754, 2>>, <<6745, 6749, 2>>, <<6757, 6764, 1>>,
    <<6771, 6780, 1>>, <<6783, 6783, 1>>, <<6823, 6823, 1>>, <<6832, 6862, 1>>, <<6912, 6915, 1>>,
    <<6964, 6972, 2>>, <<6967, 6969, 2>>, <<6978, 6978, 1>>, <<7019, 7027, 1>>, <<7040, 7041, 1>>,
    <<7074, 7077, 1>>, <<7080, 7081, 1>>, <<7083, 7085, 1>>, <<7142, 7144, 2>>, <<7145, 7145, 1>>,
    <<7149, 7153, 2>>, <<7152, 7152, 1>>, <<7212, 7219, 1>>, <<7222, 7223, 1>>, <<7288, 7293, 1>>,
    <<7376, 7400, 2>>, <<7377, 7377, 1>>, <<7381, 7391, 2>>, <<7395, 7399, 2>>, <<7405, 7405, 1>>,
    <<7412, 7412, 1>>, <<7416, 7417, 1>>, <<7468, 7530, 1>>, <<7544, 7544, 1>>, <<7579, 7679, 1>>,
    <<8125, 8129, 2>>, <<8128, 8128, 1>>, <<8141, 8143, 1>>, <<8157, 8159, 1>>, <<8173, 8175, 1>>,
    <<8189, 8190, 1>>, <<8203, 8207, 1>>, <<8216, 8217, 1>>, <<8228, 8228, 1>>, <<8231, 8231, 1>>,
    <<8234, 8238, 1>>, <<8288, 8302, 2>>, <<8289, 8291, 2>>, <<8295, 8305, 2>>, <<8319, 8319, 1>>,
    <<8336, 8348, 1>>, <<8400, 8432, 1>>, <<11388, 11389, 1>>, <<11503, 11505, 1>>, <<11631, 11631, 1>>,
    <<11647, 11647, 1>>, <<11744, 11775, 1>>, <<11823, 11823, 1>>, <<12293, 12293, 1>>, <<12330, 12333, 1>>,
    <<12337, 12341, 1>>, <<12347, 12347, 1>>, <<12441, 12446, 1>>, <<12540, 12542, 1>>, <<40981, 40981, 1>>,
    <<42232, 42237, 1>>, <<42508, 42508, 1>>, <<42607, 42610, 1>>, <<42612, 42621, 1>>, <<42623, 42623, 1>>,
    <<42652, 42655, 1>>, <<42736, 42737, 1>>, <<42752, 42785, 1>>, <<42864, 42864, 1>>, <<42888, 42890, 1>>,
    <<42994, 42996, 1>>, <<43000, 43001, 1>>, <<43010, 43010, 1>>, <<43014, 43014, 1>>, <<43019, 43019, 1>>,
    <<43045, 43046, 1>>, <<43052, 43052, 1>>, <<43204, 43205, 1>>, <<43232, 43249, 1>>, <<43263, 43263, 1>>,
    <<43302, 43309, 1>>, <<43335, 43345, 1>>, <<43392, 43394, 1>>, <<43443, 43443, 1>>, <<43446, 43449, 1>>,
    <<43452, 43453, 1>>, <<43471, 43471, 1>>, <<43493, 43494, 1>>, <<43561, 43566, 1>>, <<43569, 43570, 1>>,
    <<43573, 43574, 1>>, <<43587, 43587, 1>>, <<43596, 43596, 1>>, <<43632, 43632, 1>>, <<43644, 43644, 1>>,
    <<43696, 43700, 2>>, <<43699, 43699, 1>>, <<43703, 43704, 1>>, <<43710, 43711, 1>>, <<43713, 43713, 1>>,
    <<43741, 43741, 1>>, <<43756, 43757, 1>>, <<43763, 43764, 1>>, <<43766, 43766, 1>>, <<43867, 43871, 1>>,
    <<43881, 43883, 1>>, <<44005, 44005, 1>>, <<44008, 44008, 1>>, <<44013, 44013, 1>>, <<64286, 64286, 1>>,
    <<64434, 64450, 1>>, <<65024, 65039, 1>>, <<65043, 65043, 1>>, <<65056, 65071, 1>>, <<65106, 65106, 1>>,
    <<65109, 65109, 1>>, <<65279, 65279, 1>>, <<65287, 65287, 1>>, <<65294, 65294, 1>>, <<65306, 65306, 1>>,
    <<65342, 65344, 2>>, <<65392, 65392, 1>>, <<65438, 65439, 1>>, <<65507, 65507, 1>>, <<65529, 65531, 1>>,
    <<66045, 66045, 1>>, <<66272, 66272, 1>>, <<66422, 66426, 1>>, <<67456, 67461, 1>>, <<67463, 67504, 1>>,
    <<67506, 67514, 1>>, <<68097, 68099, 1>>, <<68101, 68102, 1>>, <<68108, 68111, 1>>, <<68152, 68154, 1>>,
    <<68159, 68159, 1>>, <<68325, 68326, 1>>, <<68900, 68903, 1>>, <<69291, 69292, 1>>, <<69446, 69456, 1>>,
    <<69506, 69509, 1>>, <<69633, 69633, 1>>, <<69688, 69702, 1>>, <<69744, 69744, 1>>, <<69747, 69748, 1>>,
    <<69759, 69761, 1>>, <<69811, 69814, 1>>, <<69817, 69818, 1>>, <<69821, 69821, 1>>, <<69826, 69826, 1>>,
    <<69837, 69837, 1>>, <<69888, 69890, 1>>, <<69927, 69939, 2>>, <<69928, 69930, 2>>, <<69934, 69940, 2>>,
    <<70003, 70003, 1>>, <<70016, 70017, 1>>, <<70070, 70078, 1>>, <<70089, 70092, 1>>, <<70095, 70095, 1>>,
    <<70191, 70193, 1>>, <<70196, 70198, 2>>, <<70199, 70199, 1>>, <<70206, 70206, 1>>, <<70367, 70367, 1>>,
    <<70371, 70378, 1>>, <<70400, 70401, 1>>, <<70459, 70460, 1>>, <<70464, 70464, 1>>, <<70502, 70508, 1>>,
    <<70512, 70516, 1>>, <<70712, 70719, 1>>, <<70722, 70724, 1>>, <<70726, 70726, 1>>, <<70750, 70750, 1>>,
    <<70835, 70840, 1>>, <<70842, 70842, 1>>, <<70847, 70848, 1>>, <<70850, 70851, 1>>, <<71090, 71093, 1>>,
    <<71100, 71101, 1>>, <<71103, 71104, 1>>, <<71132, 71133, 1>>, <<71219, 71226, 1>>, <<71229, 71231, 2>>,
    <<71232, 71232, 1>>, <<71339, 71341, 2>>, <<71344, 71349, 1>>, <<71351, 71351, 1>>, <<71453, 71455, 1>>,
    <<71458, 71461, 1>>, <<71463, 71467, 1>>, <<71727, 71735, 1>>, <<71737, 71738, 1>>, <<71995, 71996, 1>>,
    <<71998, 71998, 1>>, <<72003, 72003, 1>>, <<72148, 72151, 1>>, <<72154, 72155, 1>>, <<72160, 72160, 1>>,
    <<72193, 72202, 1>>, <<72243, 72248, 1>>, <<72251, 72254, 1>>, <<72263, 72263, 1>>, <<72273, 72278, 1>>,
    <<72281, 72283, 1>>, <<72330, 72342, 1>>, <<72344, 72345, 1>>, <<72752, 72758, 1>>, <<72760, 72765, 1>>,
    <<72767, 72767, 1>>, <<72850, 72871, 1>>, <<72874, 72880, 1>>, <<72882, 72883, 1>>, <<72885, 72886, 1>>,
    <<73009, 73014, 1>>, <<73018, 73020, 2>>, <<73021, 73031, 2>>, <<73024, 73028, 2>>, <<73104, 73105, 1>>,
    <<73109, 73111, 2>>, <<73459, 73460, 1>>, <<78896, 78904, 1>>, <<92912, 92916, 1>>, <<92976, 92982, 1>>,
    <<92992, 92995, 1>>, <<94031, 94031, 1>>, <<94095, 94111, 1>>, <<94176, 94177, 1>>, <<94179, 94180, 1>>,
    <<110576, 110579, 1>>, <<110581, 110587, 1>>, <<110589, 110590, 1>>, <<113821, 113822, 1>>, <<113824, 113827, 1>>,
    <<118528, 118573, 1>>, <<118576, 118598, 1>>, <<119143, 119145, 1>>, <<119155, 119170, 1>>, <<119173, 119179, 1>>,
    <<119210, 119213, 1>>, <<119362, 119364, 1>>, <<121344, 121398, 1>>, <<121403, 121452, 1>>, <<121461, 121461, 1>>,
    <<121476, 121476, 1>>, <<121499, 121519, 2>>, <<121500, 121502, 2>>, <<121506, 121518, 2>>, <<122880, 122904, 2>>,
    <<122881, 122885, 2>>, <<122889, 122903, 2>>, <<122907, 122913, 1>>, <<122915, 122916, 1>>, <<122918, 122922, 1>>,
    <<123184, 123197, 1>>, <<123566, 123566, 1>>, <<123628, 123631, 1>>, <<125136, 125142, 1>>, <<125252, 125259, 1>>,
    <<127995, 127999, 1>>, <<917505, 917505, 1>>, <<917536, 917631, 1>>, <<917760, 917999, 1>> >>

\* c is one of the code points of the ranges R.
InRanges(c, R) ==
    \E i \in DOMAIN R :
        R[i][1] <= c /\ c <= R[i][2] /\ (c - R[i][1]) % R[i][3] = 0

IsCased(c) == InRanges(c, CasedRanges)

IsCaseIgnorable(c) == InRanges(c, CaseIgnorableRanges)

\* The capital sigma at x[i] is in Final_Sigma context: the nearest code
\* point before it that is not case-ignorable exists and is cased, and the
\* nearest one after it that is not case-ignorable, if any, is not cased.
FinalSigma(x, i) ==
    LET before == {j \in 1..(i - 1) : ~IsCaseIgnorable(x[j])}
        after == {j \in (i + 1)..Len(x) : ~IsCaseIgnorable(x[j])}
        last == CHOOSE j \in before : \A k \in before : k <= j
        first == CHOOSE j \in after : \A k \in after : j <= k
    IN  /\ before # {}
        /\ IsCased(x[last])
        /\ after = {} \/ ~IsCased(x[first])

\* The lower case of the code point at x[i]: a capital sigma (U+03A3)
\* becomes a final sigma (U+03C2) in Final_Sigma context and a small sigma
\* otherwise; every other code point is lowered on its own.
LowerAt(x, i) ==
    IF x[i] = 931
    THEN (IF FinalSigma(x, i) THEN <<962>> ELSE <<963>>)
    ELSE LowerCode(x[i])

RECURSIVE LowerFrom(_, _)
LowerFrom(x, i) ==
    IF i > Len(x) THEN <<>> ELSE LowerAt(x, i) \o LowerFrom(x, i + 1)

\* str.lower() on the code points of a string.
LowerCodes(x) == LowerFrom(x, 1)

\* The string of CodePoints whose code points are those of s.lower().
LowerOf(s) ==
    LET lowered == LowerCodes(CodePoints[s])
    IN  CHOOSE t \in DOMAIN CodePoints : CodePoints[t] = lowered

\* str.lower() on the non-empty set S of strings of CodePoints, built entry
\* by entry so that it is held as a table.
RECURSIVE LowerTableOn(_)
LowerTableOn(S) ==
    LET s == CHOOSE x \in S : TRUE
    IN  IF S = {s} THEN s :> LowerOf(s) ELSE (s :> LowerOf(s)) @@ LowerTableOn(S \ {s})

\* str.lower() for every string of CodePoints.
LowerTable == LowerTableOn(DOMAIN CodePoints)

\* A plausible slip: the reaction strings are compared as given.
lower_missing(s) == s

\* i.lower()
lower(s) == LowerTable[s]

\* a < b for Python strings: lexicographic on code points, a proper prefix
\* being smaller.
StrLess(a, b) ==
    LET x == CodePoints[a]
        y == CodePoints[b]
    IN  \E k \in 1..(Len(y)) :
            /\ \A j \in 1..(k - 1) : j <= Len(x) /\ x[j] = y[j]
            /\ k - 1 <= Len(x)
            /\ \/ k = Len(x) + 1
               \/ k <= Len(x) /\ x[k] < y[k]

\* sorted(S) for a set S of strings: ascending sequence of its elements.
RECURSIVE sorted(_)
sorted(S) ==
    IF S = {} THEN <<>>
    ELSE LET m == CHOOSE x \in S : \A y \in S \ {x} : StrLess(x, y)
         IN  <<m>> \o sorted(S \ {m})

\* set(xs) for a list xs.
ToSet(xs) == {xs[i] : i \in DOMAIN xs}

\* x in xs, for a list xs.
Contains(x, xs) == \E i \in DOMAIN xs : xs[i] = x

(***************************************************************************)
(* Personal colour.                                                        *)
(***************************************************************************)
\* A plausible slip: the vein colour is looked at before the hint.
infer_undertone_vein_first(r) ==
    IF r.vein_color = "blue" THEN "cool"
    ELSE IF r.vein_color = "green" THEN "warm"
    ELSE IF r.undertone_hint \in {"cool", "warm", "neutral"} THEN r.undertone_hint
    ELSE IF r.jewelry_preference = "silver" THEN "cool"
    ELSE IF r.jewelry_preference = "gold" THEN "warm"
    ELSE "neutral"

infer_undertone(r) ==
    IF r.undertone_hint \in {"cool", "warm", "neutral"} THEN r.undertone_hint
    ELSE IF r.vein_color = "blue" THEN "cool"
    ELSE IF r.vein_color = "green" THEN "warm"
    ELSE IF r.jewelry_preference = "silver" THEN "cool"
    ELSE IF r.jewelry_preference = "gold" THEN "warm"
    ELSE "neutral"

\* A plausible slip: the warm branch uses the same skin tones as the others.
undertone_to_season_same_tones(undertone, skin_tone) ==
    IF undertone = "cool"
    THEN (IF skin_tone \in {"fair", "light"} THEN "summer" ELSE "winter")
    ELSE IF undertone = "warm"
    THEN (IF skin_tone \in {"fair", "light"} THEN "spring" ELSE "autumn")
    ELSE (IF skin_tone \in {"fair", "light"} THEN "spring" ELSE "autumn")

undertone_to_season(undertone, skin_tone) ==
    IF undertone = "cool"
    THEN (IF skin_tone \in {"fair", "light"} THEN "summer" ELSE "winter")
    ELSE IF undertone = "warm"
    THEN (IF skin_tone \in {"fair", "light", "medium"} THEN "spring" ELSE "autumn")
    ELSE (IF skin_tone \in {"fair", "light"} THEN "spring" ELSE "autumn")

\* The dict `palettes` of season_palette.
palettes ==
    [spring |-> <<"peach", "coral", "warm beige", "light olive", "mint">>,
     summer |-> <<"cool pink", "lavender", "soft blue", "rose", "mauve">>,
     autumn |-> <<"terracotta", "olive", "mustard", "warm brown", "teal">>,
     winter |-> <<"true red", "black", "white", "emerald", "cobalt">>]

\* d.get(key, default)
DictGet(d, key, default) == IF key \in DOMAIN d THEN d[key] ELSE default

\* A plausible slip: the autumn palette is stored under another key.
season_palette_fall(season) ==
    DictGet([fall |-> palettes.autumn, spring |-> palettes.spring,
             summer |-> palettes.summer, winter |-> palettes.winter],
            season, <<"neutral">>)

season_palette(season) == DictGet(palettes, season, <<"neutral">>)

analyze_personal_color(r) ==
    LET u == infer_undertone(r)
        s == undertone_to_season(u, r.skin_tone)
        p == season_palette(s)
    IN  PersonalColorResult(u, s, p)

(***************************************************************************)
(* Sensitivity.  Each rule gives the flags and the avoid entries it        *)
(* appends, in the order of the appends.                                   *)
(***************************************************************************)
Appends(flags, avoid) == [flags |-> flags, avoid |-> avoid]

NoAppend == Appends(<<>>, <<>>)

FragranceRule(r, low) ==
    IF r.fragrance_sensitive \/ Contains("fragrance", low)
    THEN Appends(<<"fragrance_sensitive">>, <<"fragrance">>)
    ELSE NoAppend

AcneRule(r, low) ==
    IF r.acne_prone \/ Contains("pore clogging", low)
    THEN Appends(<<"acne_prone">>, <<"heavy oils", "isopropyl myristate">>)
    ELSE NoAppend

SkinTypeRule(r) ==
    LET dry == IF r.skin_type = "dry"
               THEN Appends(<<"dry_skin">>, <<"high alcohol">>) ELSE NoAppend
        oily == IF r.skin_type = "oily"
                THEN Appends(<<"oily_skin">>, <<"heavy occlusives">>) ELSE NoAppend
        sens == IF r.skin_type = "sensitive"
                THEN Appends(<<"sensitive_skin">>, <<"strong AHA/BHA", "retinoid (high)">>)
                ELSE NoAppend
    IN  Appends(dry.flags \o oily.flags \o sens.flags,
                dry.avoid \o oily.avoid \o sens.avoid)

\* A plausible slip: the second test is an elif of the first.
ReactionRule_elif(low) ==
    IF Contains("alcohol", low) THEN Appends(<<>>, <<"alcohol">>)
    ELSE IF Contains("aha", low) THEN Appends(<<>>, <<"strong AHA">>)
    ELSE NoAppend

ReactionRule(low) ==
    Appends(<<>>,
            (IF Contains("alcohol", low) THEN <<"alcohol">> ELSE <<>>)
            \o (IF Contains("aha", low) THEN <<"strong AHA">> ELSE <<>>))

\* A plausible slip: the list is returned as accumulated.
DedupSorted_as_appended(avoid) == avoid

\* avoid = sorted(set(avoid))
DedupSorted(avoid) == sorted(ToSet(avoid))

\* The fixed advisory sentence `notes` (Korean in the source; string literals
\* here are ASCII, so its English rendering stands for it).
notes == "check ingredient labels against your sensitivity and skin type"

analyze_sensitivity(r) ==
    LET low == [i \in DOMAIN r.ingredients_reactions |-> lower(r.ingredients_reactions[i])]
        a == FragranceRule(r, low)
        b == AcneRule(r, low)
        c == SkinTypeRule(r)
        d == ReactionRule(low)
        flags == a.flags \o b.flags \o c.flags \o d.flags
        avoid == a.avoid \o b.avoid \o c.avoid \o d.avoid
    IN  SensitivityResult(flags, DedupSorted(avoid), notes)


(***************************************************************************)
(* Truthiness and `or`.  A pydantic model object defines neither __bool__  *)
(* nor __len__, so every model object is true and only None is false.      *)
(***************************************************************************)
\* A plausible slip: a result whose avoid list is empty counts as false.
Truthy_empty_is_false(x) ==
    /\ x # NoneObj
    /\ ("avoid_ingredients" \in DOMAIN x => x.avoid_ingredients # <<>>)

Truthy(x) == x # NoneObj

\* a or b
Or(a, b) == IF Truthy(a) THEN a ELSE b

\* d[key] = value on a dict held as its set of items.
DictSet(d, key, value) == {kv \in d : kv[1] # key} \cup {<<key, value>>}

\* The body of api_comprehensive up to the construction of `res`.
comprehensive(r) ==
    LET personal_res == IF r.personal # NoneObj
                        THEN analyze_personal_color(Or(r.personal, PersonalColorRequestDefault))
                        ELSE NoneObj
        sensi_res == IF r.sensitivity # NoneObj
                     THEN analyze_sensitivity(Or(r.sensitivity, SensitivityRequestDefault))
                     ELSE NoneObj
        recs0 == {}
        recs1 == IF Truthy(personal_res)
                 THEN DictSet(recs0, "palette", personal_res.palette) ELSE recs0
        recs2 == IF Truthy(sensi_res)
                 THEN DictSet(recs1, "avoid", sensi_res.avoid_ingredients) ELSE recs1
    IN  ComprehensiveResult(r.user_id, personal_res, sensi_res, recs2)

(***************************************************************************)
(* SpecEngine: one engine call on any input of the bounded domain.         *)
(***************************************************************************)
\* Reaction strings offered to the engine: the four keywords in several
\* letter cases and one string no rule mentions.
ReactionStrings ==
    {"fragrance", "FRAGRANCE", "Alcohol", "AHA", "aha", "Pore Clogging", "retinol"}

ReactionLists == UNION {[1..n -> ReactionStrings] : n \in 0..MaxReactions}

PersonalColorRequests ==
    {PersonalColorRequest(None, st, vc, jp, uh) :
        st \in Optional(SkinTone), vc \in Optional(VeinColor),
        jp \in Optional(JewelryPreference), uh \in Optional(Undertone)}

SensitivityRequests ==
    {SensitivityRequest(None, st, ir, fs, ap) :
        st \in Optional(SkinType), ir \in ReactionLists,
        fs \in BOOLEAN, ap \in BOOLEAN}

Workers == 1..NumWorkers

\* The local variables of the engine functions and of api_comprehensive
\* before any of them is assigned.
NoLocals ==
    [u |-> None, s |-> None, flags |-> <<>>, avoid |-> <<>>, low |-> <<>>,
     personal_res |-> NoneObj, sensi_res |-> NoneObj]

GatewayIdle ==
    /\ supabase = FALSE
    /\ pc = [w \in Workers |-> "idle"]
    /\ kind = [w \in Workers |-> None]
    /\ req = [w \in Workers |-> NoneObj]
    /\ res = [w \in Workers |-> NoneObj]
    /\ insert = [w \in Workers |-> "none"]
    /\ response = [w \in Workers |-> NoneObj]
    /\ analysis_logs = {}
    /\ served = {}
    /\ nreq = 0
    /\ locals = [w \in Workers |-> NoLocals]

EngineInit ==
    /\ \/ fn = "analyze_personal_color" /\ arg \in PersonalColorRequests
       \/ fn = "analyze_sensitivity" /\ arg \in SensitivityRequests
    /\ ret = NoneObj
    /\ GatewayIdle

CallPersonalColor ==
    /\ fn = "analyze_personal_color"
    /\ ret = NoneObj
    /\ ret' = analyze_personal_color(arg)
    /\ UNCHANGED <<fn, arg, gatewayVars>>

CallSensitivity ==
    /\ fn = "analyze_sensitivity"
    /\ ret = NoneObj
    /\ ret' = analyze_sensitivity(arg)
    /\ UNCHANGED <<fn, arg, gatewayVars>>

EngineNext == CallPersonalColor \/ CallSensitivity

SpecEngine == EngineInit /\ [][EngineNext]_vars


(***************************************************************************)
(* Spec: the gateway.  The server runs each (synchronous) endpoint handler *)
(* on a worker thread; a worker serves one request at a time.              *)
(*   idle -> handler -> save_log -> (execute ->) return -> done -> idle    *)
(* The table rows leave out created_at (the wall clock).                   *)
(***************************************************************************)
Endpoints == {"personal-color", "sensitivity", "comprehensive"}

\* The requests sent to the gateway: for each endpoint the all-defaults
\* request and one with fields set; for the comprehensive endpoint every
\* combination of an absent and an all-defaults block, and one request with
\* both blocks filled in.
GatewayPersonal ==
    {PersonalColorRequestDefault,
     PersonalColorRequest("u1", "fair", "blue", "gold", None)}

GatewaySensitivity ==
    {SensitivityRequestDefault,
     SensitivityRequest("u1", "oily", <<"Alcohol", "AHA">>, FALSE, TRUE)}

GatewayComprehensive ==
    {ComprehensiveRequest(None, p, s) :
        p \in {NoneObj, PersonalColorRequestDefault},
        s \in {NoneObj, SensitivityRequestDefault}}
    \cup {ComprehensiveRequest("u2",
              PersonalColorRequest(None, "deep", "green", None, "cool"),
              SensitivityRequest(None, "dry", <<"FRAGRANCE", "alcohol">>, FALSE, FALSE))}

Requests(k) ==
    CASE k = "personal-color" -> GatewayPersonal
      [] k = "sensitivity" -> GatewaySensitivity
      [] k = "comprehensive" -> GatewayComprehensive

\* A 200 response carrying the handler's return value.
HttpOk(body) == [status |-> 200, body |-> body]

\* raise HTTPException(status_code=400, detail=str(e))
HttpError(detail) == [status |-> 400, detail |-> detail]

\* The dict save_log inserts, without created_at.
LogRow(k, user_id, payload, result) ==
    [kind |-> k, user_id |-> user_id, payload |-> payload, result |-> result]

Init ==
    /\ fn = None
    /\ arg = NoneObj
    /\ ret = NoneObj
    /\ supabase \in BOOLEAN
    /\ pc = [w \in Workers |-> "idle"]
    /\ kind = [w \in Workers |-> None]
    /\ req = [w \in Workers |-> NoneObj]
    /\ res = [w \in Workers |-> NoneObj]
    /\ insert = [w \in Workers |-> "none"]
    /\ response = [w \in Workers |-> NoneObj]
    /\ analysis_logs = {}
    /\ served = {}
    /\ nreq = 0
    /\ locals = [w \in Workers |-> NoLocals]

\* A request arrives, passes validation and is given to an idle worker.
Receive(w) ==
    /\ pc[w] = "idle"
    /\ nreq < MaxRequests
    /\ \E k \in Endpoints : \E r \in Requests(k) :
        /\ kind' = [kind EXCEPT ![w] = k]
        /\ req' = [req EXCEPT ![w] = r]
    /\ pc' = [pc EXCEPT ![w] = "handler"]
    /\ nreq' = nreq + 1
    /\ UNCHANGED <<engineVars, locals, supabase, res, insert, response, analysis_logs, served>>

\* api_personal_color up to the call of save_log.
ApiPersonalColor(w) ==
    /\ pc[w] = "handler"
    /\ kind[w] = "personal-color"
    /\ res' = [res EXCEPT ![w] = analyze_personal_color(req[w])]
    /\ pc' = [pc EXCEPT ![w] = "save_log"]
    /\ UNCHANGED <<engineVars, locals, supabase, kind, req, insert, response, analysis_logs, served, nreq>>

\* api_sensitivity up to the call of save_log.
ApiSensitivity(w) ==
    /\ pc[w] = "handler"
    /\ kind[w] = "sensitivity"
    /\ res' = [res EXCEPT ![w] = analyze_sensitivity(req[w])]
    /\ pc' = [pc EXCEPT ![w] = "save_log"]
    /\ UNCHANGED <<engineVars, locals, supabase, kind, req, insert, response, analysis_logs, served, nreq>>

\* api_comprehensive up to the call of save_log.
ApiComprehensive(w) ==
    /\ pc[w] = "handler"
    /\ kind[w] = "comprehensive"
    /\ res' = [res EXCEPT ![w] = comprehensive(req[w])]
    /\ pc' = [pc EXCEPT ![w] = "save_log"]
    /\ UNCHANGED <<engineVars, locals, supabase, kind, req, insert, response, analysis_logs, served, nreq>>

\* A plausible variant: the record is handed to a background task and the
\* handler goes on to its return.
SaveLog_handoff(w) ==
    /\ pc[w] = "save_log"
    /\ IF ~supabase
       THEN insert' = [insert EXCEPT ![w] = "skipped"]
       ELSE insert' = [insert EXCEPT ![w] = "inflight"]
    /\ pc' = [pc EXCEPT ![w] = "return"]
    /\ UNCHANGED <<engineVars, locals, supabase, kind, req, res, response, analysis_logs, served, nreq>>

\* save_log is entered: it returns at once without a client, and otherwise
\* issues the insert and blocks in execute().
SaveLog(w) ==
    /\ pc[w] = "save_log"
    /\ IF ~supabase
       THEN /\ insert' = [insert EXCEPT ![w] = "skipped"]
            /\ pc' = [pc EXCEPT ![w] = "return"]
       ELSE /\ insert' = [insert EXCEPT ![w] = "inflight"]
            /\ pc' = [pc EXCEPT ![w] = "execute"]
    /\ UNCHANGED <<engineVars, locals, supabase, kind, req, res, response, analysis_logs, served, nreq>>

\* execute() returns: the row is stored and save_log returns.
InsertOk(w) ==
    /\ pc[w] = "execute"
    /\ insert[w] = "inflight"
    /\ analysis_logs' = analysis_logs \cup {LogRow(kind[w], req[w].user_id, req[w], res[w])}
    /\ insert' = [insert EXCEPT ![w] = "ok"]
    /\ pc' = [pc EXCEPT ![w] = "return"]
    /\ UNCHANGED <<engineVars, locals, supabase, kind, req, res, response, served, nreq>>

\* A plausible slip: save_log without its try/except, so the exception
\* reaches the handler's `except Exception` and becomes a 400.
InsertRaises_propagates(w) ==
    /\ pc[w] = "execute"
    /\ insert[w] = "inflight"
    /\ insert' = [insert EXCEPT ![w] = "failed"]
    /\ response' = [response EXCEPT ![w] = HttpError("insert failed")]
    /\ served' = served \cup {[kind |-> kind[w], req |-> req[w],
                               response |-> HttpError("insert failed")]}
    /\ pc' = [pc EXCEPT ![w] = "done"]
    /\ UNCHANGED <<engineVars, locals, supabase, kind, req, res, analysis_logs, nreq>>

\* execute() raises: `except Exception: pass`, and save_log returns.
InsertRaises(w) ==
    /\ pc[w] = "execute"
    /\ insert[w] = "inflight"
    /\ insert' = [insert EXCEPT ![w] = "failed"]
    /\ pc' = [pc EXCEPT ![w] = "return"]
    /\ UNCHANGED <<engineVars, locals, supabase, kind, req, res, response, analysis_logs, served, nreq>>

\* `return res`: the caller receives the result.
Return(w) ==
    /\ pc[w] = "return"
    /\ response' = [response EXCEPT ![w] = HttpOk(res[w])]
    /\ served' = served \cup {[kind |-> kind[w], req |-> req[w], response |-> HttpOk(res[w])]}
    /\ pc' = [pc EXCEPT ![w] = "done"]
    /\ UNCHANGED <<engineVars, locals, supabase, kind, req, res, insert, analysis_logs, nreq>>

\* The request is over; its objects and the locals of the handler are
\* dropped and the worker is free.
Release(w) ==
    /\ pc[w] = "done"
    /\ pc' = [pc EXCEPT ![w] = "idle"]
    /\ kind' = [kind EXCEPT ![w] = None]
    /\ req' = [req EXCEPT ![w] = NoneObj]
    /\ res' = [res EXCEPT ![w] = NoneObj]
    /\ insert' = [insert EXCEPT ![w] = "none"]
    /\ response' = [response EXCEPT ![w] = NoneObj]
    /\ locals' = [locals EXCEPT ![w] = NoLocals]
    /\ UNCHANGED <<engineVars, supabase, analysis_logs, served, nreq>>

Next ==
    \E w \in Workers :
        \/ Receive(w)
        \/ ApiPersonalColor(w)
        \/ ApiSensitivity(w)
        \/ ApiComprehensive(w)
        \/ SaveLog(w)
        \/ InsertOk(w)
        \/ InsertRaises(w)
        \/ Return(w)
        \/ Release(w)

Spec == Init /\ [][Next]_vars


(***************************************************************************)
(* SpecConcurrent: the engine under concurrent calls.  The handlers run on *)
(* worker threads, so the statements of one call interleave with those of  *)
(* the others.  Each worker runs its call statement by statement on the    *)
(* local variables of that call (`locals`); a worker's position is the     *)
(* statement it executes next:                                             *)
(*   u -> s -> p                                    analyze_personal_color *)
(*   lists -> fragrance -> acne -> skin_type -> reactions -> sorted        *)
(*                                                     analyze_sensitivity *)
(*   personal_res -> (u .. p) -> sensi_res -> (lists .. sorted) -> recs    *)
(*                                                       api_comprehensive *)
(* and then save_log -> (execute ->) return -> done -> idle as in Spec,     *)
(* with or without a client.                                               *)
(***************************************************************************)
\* The requests of SpecConcurrent: one request for each endpoint, the
\* comprehensive one with both blocks, so that two different inputs can be
\* inside either engine function at the same time.
ConcurrentRequests(k) ==
    CASE k = "personal-color" ->
            {PersonalColorRequest("u1", "fair", "blue", "gold", None)}
      [] k = "sensitivity" ->
            {SensitivityRequest("u1", "oily", <<"Alcohol", "AHA">>, FALSE, TRUE)}
      [] k = "comprehensive" ->
            {ComprehensiveRequest("u2",
                 PersonalColorRequest(None, "deep", "green", None, "cool"),
                 SensitivityRequest(None, "dry", <<"FRAGRANCE", "alcohol">>, FALSE, FALSE))}

\* The first statement of the handler of endpoint k: the two single
\* handlers begin with their engine call, api_comprehensive with the
\* assignment of personal_res.
FirstStatement(k) ==
    CASE k = "personal-color" -> "u"
      [] k = "sensitivity" -> "lists"
      [] k = "comprehensive" -> "personal_res"

\* The argument of the analyze_personal_color call of worker w.
PersonalArg(w) ==
    IF kind[w] = "comprehensive"
    THEN Or(req[w].personal, PersonalColorRequestDefault)
    ELSE req[w]

\* The argument of the analyze_sensitivity call of worker w.
SensitivityArg(w) ==
    IF kind[w] = "comprehensive"
    THEN Or(req[w].sensitivity, SensitivityRequestDefault)
    ELSE req[w]

\* xs.append / xs.extend of what a rule appends, on the locals of worker w.
Extend(w, a) ==
    [locals EXCEPT ![w].flags = @ \o a.flags, ![w].avoid = @ \o a.avoid]

\* A request arrives, passes validation and is given to an idle worker,
\* which stands at the first statement of the handler.
Call(w) ==
    /\ pc[w] = "idle"
    /\ nreq < MaxCalls
    /\ \E k \in Endpoints : \E r \in ConcurrentRequests(k) :
        /\ kind' = [kind EXCEPT ![w] = k]
        /\ req' = [req EXCEPT ![w] = r]
        /\ pc' = [pc EXCEPT ![w] = FirstStatement(k)]
    /\ nreq' = nreq + 1
    /\ UNCHANGED <<engineVars, locals, supabase, res, insert, response, analysis_logs, served>>

\* api_comprehensive, personal_res = ... : the call is made if the block is
\* present, and personal_res is None otherwise.
ComprehensivePersonal(w) ==
    /\ pc[w] = "personal_res"
    /\ IF req[w].personal # NoneObj
       THEN /\ pc' = [pc EXCEPT ![w] = "u"]
            /\ UNCHANGED locals
       ELSE /\ pc' = [pc EXCEPT ![w] = "sensi_res"]
            /\ locals' = [locals EXCEPT ![w].personal_res = NoneObj]
    /\ UNCHANGED <<engineVars, supabase, kind, req, res, insert, response,
                   analysis_logs, served, nreq>>

\* u = infer_undertone(req)
StepUndertone(w) ==
    /\ pc[w] = "u"
    /\ locals' = [locals EXCEPT ![w].u = infer_undertone(PersonalArg(w))]
    /\ pc' = [pc EXCEPT ![w] = "s"]
    /\ UNCHANGED <<engineVars, supabase, kind, req, res, insert, response,
                   analysis_logs, served, nreq>>

\* s = undertone_to_season(u, req.skin_tone)
StepSeason(w) ==
    /\ pc[w] = "s"
    /\ locals' = [locals EXCEPT
                    ![w].s = undertone_to_season(locals[w].u, PersonalArg(w).skin_tone)]
    /\ pc' = [pc EXCEPT ![w] = "p"]
    /\ UNCHANGED <<engineVars, supabase, kind, req, res, insert, response,
                   analysis_logs, served, nreq>>

\* p = season_palette(s) and the return of analyze_personal_color: the
\* result becomes `res` of api_personal_color or `personal_res` of
\* api_comprehensive, and the locals of the call are gone.
StepPalette(w) ==
    /\ pc[w] = "p"
    /\ LET p == season_palette(locals[w].s)
           result == PersonalColorResult(locals[w].u, locals[w].s, p)
       IN  IF kind[w] = "comprehensive"
           THEN /\ locals' = [locals EXCEPT ![w] = [NoLocals EXCEPT !.personal_res = result]]
                /\ pc' = [pc EXCEPT ![w] = "sensi_res"]
                /\ UNCHANGED res
           ELSE /\ locals' = [locals EXCEPT ![w] = NoLocals]
                /\ res' = [res EXCEPT ![w] = result]
                /\ pc' = [pc EXCEPT ![w] = "save_log"]
    /\ UNCHANGED <<engineVars, supabase, kind, req, insert, response,
                   analysis_logs, served, nreq>>

\* api_comprehensive, sensi_res = ... : the call is made if the block is
\* present, and sensi_res is None otherwise.
ComprehensiveSensitivity(w) ==
    /\ pc[w] = "sensi_res"
    /\ IF req[w].sensitivity # NoneObj
       THEN /\ pc' = [pc EXCEPT ![w] = "lists"]
            /\ UNCHANGED locals
       ELSE /\ pc' = [pc EXCEPT ![w] = "recs"]
            /\ locals' = [locals EXCEPT ![w].sensi_res = NoneObj]
    /\ UNCHANGED <<engineVars, supabase, kind, req, res, insert, response,
                   analysis_logs, served, nreq>>

\* A plausible slip: flags and avoid are module-level lists, so a call
\* starts from what a call running beside it has appended so far.
StepLists_shared(w) ==
    /\ pc[w] = "lists"
    /\ \E v \in Workers :
        locals' = [locals EXCEPT
                    ![w].flags = locals[v].flags,
                    ![w].avoid = locals[v].avoid,
                    ![w].low = [i \in DOMAIN SensitivityArg(w).ingredients_reactions |->
                                    lower(SensitivityArg(w).ingredients_reactions[i])]]
    /\ pc' = [pc EXCEPT ![w] = "fragrance"]
    /\ UNCHANGED <<engineVars, supabase, kind, req, res, insert, response,
                   analysis_logs, served, nreq>>

\* flags = []; avoid = []; low = [i.lower() for i in req.ingredients_reactions]
StepLists(w) ==
    /\ pc[w] = "lists"
    /\ locals' = [locals EXCEPT
                    ![w].flags = <<>>,
                    ![w].avoid = <<>>,
                    ![w].low = [i \in DOMAIN SensitivityArg(w).ingredients_reactions |->
                                    lower(SensitivityArg(w).ingredients_reactions[i])]]
    /\ pc' = [pc EXCEPT ![w] = "fragrance"]
    /\ UNCHANGED <<engineVars, supabase, kind, req, res, insert, response,
                   analysis_logs, served, nreq>>

\* if req.fragrance_sensitive or "fragrance" in low: ...
StepFragrance(w) ==
    /\ pc[w] = "fragrance"
    /\ locals' = Extend(w, FragranceRule(SensitivityArg(w), locals[w].low))
    /\ pc' = [pc EXCEPT ![w] = "acne"]
    /\ UNCHANGED <<engineVars, supabase, kind, req, res, insert, response,
                   analysis_logs, served, nreq>>

\* if req.acne_prone or "pore clogging" in low: ...
StepAcne(w) ==
    /\ pc[w] = "acne"
    /\ locals' = Extend(w, AcneRule(SensitivityArg(w), locals[w].low))
    /\ pc' = [pc EXCEPT ![w] = "skin_type"]
    /\ UNCHANGED <<engineVars, supabase, kind, req, res, insert, response,
                   analysis_logs, served, nreq>>

\* The three tests of req.skin_type.
StepSkinType(w) ==
    /\ pc[w] = "skin_type"
    /\ locals' = Extend(w, SkinTypeRule(SensitivityArg(w)))
    /\ pc' = [pc EXCEPT ![w] = "reactions"]
    /\ UNCHANGED <<engineVars, supabase, kind, req, res, insert, response,
                   analysis_logs, served, nreq>>

\* if "alcohol" in low: ...; if "aha" in low: ...
StepReactions(w) ==
    /\ pc[w] = "reactions"
    /\ locals' = Extend(w, ReactionRule(locals[w].low))
    /\ pc' = [pc EXCEPT ![w] = "sorted"]
    /\ UNCHANGED <<engineVars, supabase, kind, req, res, insert, response,
                   analysis_logs, served, nreq>>

\* avoid = sorted(set(avoid)) and the return of analyze_sensitivity: the
\* result becomes `res` of api_sensitivity or `sensi_res` of
\* api_comprehensive, and the locals of the call are gone.
StepSorted(w) ==
    /\ pc[w] = "sorted"
    /\ LET result == SensitivityResult(locals[w].flags, DedupSorted(locals[w].avoid), notes)
       IN  IF kind[w] = "comprehensive"
           THEN /\ locals' = [locals EXCEPT
                                ![w] = [NoLocals EXCEPT
                                            !.personal_res = locals[w].personal_res,
                                            !.sensi_res = result]]
                /\ pc' = [pc EXCEPT ![w] = "recs"]
                /\ UNCHANGED res
           ELSE /\ locals' = [locals EXCEPT ![w] = NoLocals]
                /\ res' = [res EXCEPT ![w] = result]
                /\ pc' = [pc EXCEPT ![w] = "save_log"]
    /\ UNCHANGED <<engineVars, supabase, kind, req, insert, response,
                   analysis_logs, served, nreq>>

\* api_comprehensive from recs = {} to the construction of `res`;
\* personal_res and sensi_res stay bound until the handler is over.
ComprehensiveRecs(w) ==
    /\ pc[w] = "recs"
    /\ LET personal_res == locals[w].personal_res
           sensi_res == locals[w].sensi_res
           recs0 == {}
           recs1 == IF Truthy(personal_res)
                    THEN DictSet(recs0, "palette", personal_res.palette) ELSE recs0
           recs2 == IF Truthy(sensi_res)
                    THEN DictSet(recs1, "avoid", sensi_res.avoid_ingredients) ELSE recs1
       IN  res' = [res EXCEPT
                    ![w] = ComprehensiveResult(req[w].user_id, personal_res, sensi_res, recs2)]
    /\ pc' = [pc EXCEPT ![w] = "save_log"]
    /\ UNCHANGED <<engineVars, locals, supabase, kind, req, insert, response,
                   analysis_logs, served, nreq>>

ConcurrentNext ==
    \E w \in Workers :
        \/ Call(w)
        \/ ComprehensivePersonal(w)
        \/ StepUndertone(w)
        \/ StepSeason(w)
        \/ StepPalette(w)
        \/ ComprehensiveSensitivity(w)
        \/ StepLists(w)
        \/ StepFragrance(w)
        \/ StepAcne(w)
        \/ StepSkinType(w)
        \/ StepReactions(w)
        \/ StepSorted(w)
        \/ ComprehensiveRecs(w)
        \/ SaveLog(w)
        \/ InsertOk(w)
        \/ InsertRaises(w)
        \/ Return(w)
        \/ Release(w)

SpecConcurrent == Init /\ [][ConcurrentNext]_vars


(***************************************************************************)
(* Properties of the engine, checked under SpecEngine.                     *)
(***************************************************************************)
PersonalDone == fn = "analyze_personal_color" /\ ret # NoneObj

SensitivityDone == fn = "analyze_sensitivity" /\ ret # NoneObj

\* p < q implies xs[p] comes strictly before xs[q] in string order.
StrictlyAscending(xs) ==
    \A p \in DOMAIN xs : \A q \in DOMAIN xs : p < q => StrLess(xs[p], xs[q])

NoDuplicates(xs) ==
    \A p \in DOMAIN xs : \A q \in DOMAIN xs : p # q => xs[p] # xs[q]

\* C1: infer_undertone is a first-match priority chain: a present hint is
\* returned whatever the vein colour and the jewelry preference are;
\* otherwise vein blue gives cool and green gives warm whatever the jewelry
\* preference is; otherwise jewelry silver gives cool and gold gives warm;
\* otherwise the result is neutral.
C1_UndertonePriorityChain ==
    PersonalDone =>
        /\ arg.undertone_hint \in Undertone => ret.undertone = arg.undertone_hint
        /\ arg.undertone_hint = None =>
            /\ arg.vein_color = "blue" => ret.undertone = "cool"
            /\ arg.vein_color = "green" => ret.undertone = "warm"
            /\ arg.vein_color \in {None, "mixed"} =>
                /\ arg.jewelry_preference = "silver" => ret.undertone = "cool"
                /\ arg.jewelry_preference = "gold" => ret.undertone = "warm"
                /\ arg.jewelry_preference \in {None, "both"} => ret.undertone = "neutral"

\* The hint wins against a vein colour and a jewelry preference that both
\* point the other way.
C1_Witness ==
    /\ PersonalDone
    /\ arg.undertone_hint = "warm"
    /\ arg.vein_color = "blue"
    /\ arg.jewelry_preference = "silver"
    /\ ret.undertone = "warm"

\* C2: the season follows the table for every undertone and skin tone: cool
\* gives summer for fair or light and winter otherwise; warm gives spring
\* for fair, light or medium and autumn otherwise; neutral gives spring for
\* fair or light and autumn otherwise; an absent skin tone takes the
\* otherwise branch.
C2_SeasonTable ==
    PersonalDone =>
        /\ ret.undertone = "cool" =>
            ret.season = (IF arg.skin_tone \in {"fair", "light"} THEN "summer" ELSE "winter")
        /\ ret.undertone = "warm" =>
            ret.season = (IF arg.skin_tone \in {"fair", "light", "medium"}
                          THEN "spring" ELSE "autumn")
        /\ ret.undertone = "neutral" =>
            ret.season = (IF arg.skin_tone \in {"fair", "light"} THEN "spring" ELSE "autumn")
        /\ arg.skin_tone = None =>
            ret.season = (IF ret.undertone = "cool" THEN "winter" ELSE "autumn")

\* A warm undertone with a medium skin tone: the one cell where the warm row
\* differs from the other two.
C2_Witness ==
    /\ PersonalDone
    /\ ret.undertone = "warm"
    /\ arg.skin_tone = "medium"
    /\ ret.season = "spring"

\* C3: the avoid list of analyze_sensitivity is sorted ascending and holds
\* no element twice, for every input.
C3_AvoidSortedNoDuplicates ==
    SensitivityDone =>
        /\ StrictlyAscending(ret.avoid_ingredients)
        /\ NoDuplicates(ret.avoid_ingredients)

\* A repeated reaction in two letter cases, with rules of every block
\* firing: the appends come in an order that is not the sorted one.
C3_Witness ==
    /\ SensitivityDone
    /\ arg.ingredients_reactions = <<"Alcohol", "Alcohol">>
    /\ arg.skin_type = "dry"
    /\ arg.fragrance_sensitive
    /\ ret.avoid_ingredients = <<"alcohol", "fragrance", "high alcohol">>

\* The reaction strings that differ from keyword k in letter case only.
CaseVariants(k) ==
    CASE k = "fragrance" -> {"fragrance", "FRAGRANCE"}
      [] k = "pore clogging" -> {"pore clogging", "Pore Clogging"}
      [] k = "alcohol" -> {"alcohol", "Alcohol"}
      [] k = "aha" -> {"aha", "AHA"}

Reacts(r, k) == \E i \in DOMAIN r.ingredients_reactions :
                    r.ingredients_reactions[i] \in CaseVariants(k)

\* C4: the result of analyze_sensitivity is the decision table: flags are,
\* in this order, fragrance_sensitive, acne_prone and at most one skin flag;
\* the avoid set is the union of the entries of the conditions that hold,
\* plus alcohol and strong AHA for those reactions, which add no flag and do
\* not depend on the skin type.
C4_SensitivityDecisionTable ==
    SensitivityDone =>
        LET frag == arg.fragrance_sensitive \/ Reacts(arg, "fragrance")
            acne == arg.acne_prone \/ Reacts(arg, "pore clogging")
        IN  /\ ret.flags =
                (IF frag THEN <<"fragrance_sensitive">> ELSE <<>>)
                \o (IF acne THEN <<"acne_prone">> ELSE <<>>)
                \o (CASE arg.skin_type = "dry" -> <<"dry_skin">>
                      [] arg.skin_type = "oily" -> <<"oily_skin">>
                      [] arg.skin_type = "sensitive" -> <<"sensitive_skin">>
                      [] OTHER -> <<>>)
            /\ ToSet(ret.avoid_ingredients) =
                (IF frag THEN {"fragrance"} ELSE {})
                \cup (IF acne THEN {"heavy oils", "isopropyl myristate"} ELSE {})
                \cup (IF arg.skin_type = "dry" THEN {"high alcohol"} ELSE {})
                \cup (IF arg.skin_type = "oily" THEN {"heavy occlusives"} ELSE {})
                \cup (IF arg.skin_type = "sensitive"
                      THEN {"strong AHA/BHA", "retinoid (high)"} ELSE {})
                \cup (IF Reacts(arg, "alcohol") THEN {"alcohol"} ELSE {})
                \cup (IF Reacts(arg, "aha") THEN {"strong AHA"} ELSE {})

\* Oily skin reacting to alcohol and AHA: both reaction entries and the skin
\* entry are avoided, and the only flag is the skin flag.
C4_Witness ==
    /\ SensitivityDone
    /\ arg.skin_type = "oily"
    /\ arg.ingredients_reactions = <<"Alcohol", "AHA">>
    /\ ~arg.fragrance_sensitive
    /\ ~arg.acne_prone
    /\ ret.flags = <<"oily_skin">>
    /\ ret.avoid_ingredients = <<"alcohol", "heavy occlusives", "strong AHA">>

\* The code points of s with every letter in lower case.
CaseFolded(s) == CodePoints[LowerTable[s]]

\* For every reaction list, the set of its case-folded strings.
FoldSets == [l \in ReactionLists |-> {CaseFolded(l[i]) : i \in DOMAIN l}]

\* C5: analyze_sensitivity depends on the reaction list only through the set
\* of its case-folded strings: replacing the list by any list that differs
\* in letter case, order or repetition only leaves flags and avoid list as
\* they are.
C5_ReactionsAsFoldedSet ==
    SensitivityDone =>
        \A l \in ReactionLists :
            FoldSets[l] = FoldSets[arg.ingredients_reactions] =>
                LET other == analyze_sensitivity([arg EXCEPT !.ingredients_reactions = l])
                IN  /\ other.flags = ret.flags
                    /\ other.avoid_ingredients = ret.avoid_ingredients

\* An upper-case keyword that sets a flag, in a list with a second element:
\* the lists equal to it up to case, order and repetition include
\* <<"aha", "fragrance">> and <<"fragrance", "AHA">>.
C5_Witness ==
    /\ SensitivityDone
    /\ arg.ingredients_reactions = <<"FRAGRANCE", "aha">>
    /\ ~arg.fragrance_sensitive
    /\ ret.flags = <<"fragrance_sensitive">>
    /\ FoldSets[<<"aha", "fragrance">>] = FoldSets[arg.ingredients_reactions]

\* C9: analyze_personal_color returns a fully populated result for every
\* input: an undertone, a season, and the five colours of that season; the
\* one-element fallback palette is never returned.
C9_PersonalColorTotal ==
    PersonalDone =>
        /\ DOMAIN ret = {"undertone", "season", "palette"}
        /\ ret.undertone \in Undertone
        /\ ret.season \in Season
        /\ Len(ret.palette) = 5
        /\ ret.palette = palettes[ret.season]
        /\ ret.palette # <<"neutral">>

\* Every field absent: neutral, autumn and the autumn palette.
C9_Witness ==
    /\ PersonalDone
    /\ arg = PersonalColorRequestDefault
    /\ ret = PersonalColorResult("neutral", "autumn",
                 <<"terracotta", "olive", "mustard", "warm brown", "teal">>)


(***************************************************************************)
(* Properties of the gateway, checked under Spec.                          *)
(***************************************************************************)
\* key in d, and d[key], for a dict held as its set of items.
HasKey(d, key) == \E kv \in d : kv[1] = key

Value(d, key) == (CHOOSE kv \in d : kv[1] = key)[2]

\* What the engine computes for request r of endpoint k.
EngineResult(k, r) ==
    CASE k = "personal-color" -> analyze_personal_color(r)
      [] k = "sensitivity" -> analyze_sensitivity(r)
      [] k = "comprehensive" -> comprehensive(r)

\* C6: in api_comprehensive the presence of a block alone gates its
\* sub-analysis: the personal result is non-null and recommendations has key
\* palette iff the personal block is supplied, and likewise the sensitivity
\* result and key avoid; a supplied block with every field absent runs with
\* the defaults (neutral, autumn, the autumn palette; no flags, an empty
\* avoid list under key avoid); an absent block leaves the key absent.
C6_BlockPresenceGates ==
    \A w \in Workers :
        (pc[w] = "done" /\ kind[w] = "comprehensive") =>
            LET body == response[w].body
                recs == body.recommendations
            IN  /\ response[w].status = 200
                /\ (body.personal # NoneObj) <=> (req[w].personal # NoneObj)
                /\ HasKey(recs, "palette") <=> (req[w].personal # NoneObj)
                /\ (body.sensitivity # NoneObj) <=> (req[w].sensitivity # NoneObj)
                /\ HasKey(recs, "avoid") <=> (req[w].sensitivity # NoneObj)
                /\ \A kv \in recs : kv[1] \in {"palette", "avoid"}
                /\ HasKey(recs, "palette") => Value(recs, "palette") = body.personal.palette
                /\ HasKey(recs, "avoid") =>
                        Value(recs, "avoid") = body.sensitivity.avoid_ingredients
                /\ req[w].personal = PersonalColorRequestDefault =>
                        body.personal = PersonalColorResult("neutral", "autumn",
                            <<"terracotta", "olive", "mustard", "warm brown", "teal">>)
                /\ req[w].sensitivity = SensitivityRequestDefault =>
                        /\ body.sensitivity.flags = <<>>
                        /\ body.sensitivity.avoid_ingredients = <<>>
                        /\ <<"avoid", <<>>>> \in recs

\* Only an all-defaults sensitivity block is supplied: no personal result,
\* and recommendations is exactly {avoid: []}.
C6_Witness ==
    \E w \in Workers :
        /\ pc[w] = "done"
        /\ kind[w] = "comprehensive"
        /\ req[w].personal = NoneObj
        /\ req[w].sensitivity = SensitivityRequestDefault
        /\ response[w].body.personal = NoneObj
        /\ response[w].body.recommendations = {<<"avoid", <<>>>>}

\* C7: the outcome of the audit logging never changes what the caller
\* receives: for each endpoint the response is the engine's result, whether
\* no client is configured (nothing is written), the insert succeeds or the
\* insert raises; a failing insert never makes the response an error.
C7_LogOutcomeNeverChangesResponse ==
    \A w \in Workers :
        pc[w] = "done" =>
            /\ insert[w] \in {"skipped", "ok", "failed"}
            /\ insert[w] = "skipped" <=> ~supabase
            /\ ~supabase => analysis_logs = {}
            /\ response[w] = HttpOk(EngineResult(kind[w], req[w]))

\* The same request answered twice, once with the insert stored and once
\* with the insert raising: both callers hold the same 200 response.
C7_Witness ==
    \E w \in Workers : \E v \in Workers :
        /\ pc[w] = "done" /\ pc[v] = "done"
        /\ kind[w] = kind[v] /\ req[w] = req[v]
        /\ insert[w] = "ok" /\ insert[v] = "failed"
        /\ response[w].status = 200
        /\ response[w] = response[v]

\* C8 as stated: logging is fire-and-forget, the handler hands the record
\* off and is not held back by the write: while an insert is in flight the
\* handler is not waiting for it.
C8_FireAndForget ==
    \A w \in Workers : insert[w] = "inflight" => pc[w] # "execute"

\* C8 as amended: logging is synchronous and best-effort: the handler calls
\* save_log inline, so a response exists only once the insert was skipped
\* (no client), stored, or has raised and been swallowed; no response is
\* given while an insert is in flight.
C8_ResponseAfterLogAttempt ==
    \A w \in Workers :
        /\ response[w] # NoneObj => insert[w] \in {"skipped", "ok", "failed"}
        /\ insert[w] = "inflight" => response[w] = NoneObj /\ pc[w] = "execute"

\* A response given after its row was stored.
C8_Witness ==
    \E w \in Workers :
        /\ response[w] # NoneObj
        /\ insert[w] = "ok"
        /\ LogRow(kind[w], req[w].user_id, req[w], res[w]) \in analysis_logs

(***************************************************************************)
(* Properties of concurrent calls, checked under SpecConcurrent.           *)
(***************************************************************************)
\* xs is an initial part of ys.
IsPrefix(xs, ys) == Len(xs) <= Len(ys) /\ SubSeq(ys, 1, Len(xs)) = xs

\* The positions inside analyze_sensitivity after its lists are created.
InSensitivity == {"fragrance", "acne", "skin_type", "reactions", "sorted"}

\* Every engine and handler call SpecConcurrent can make: the requests of
\* the three endpoints, and the blocks of the comprehensive requests as
\* arguments of the two engine functions.
CallsMade == UNION {{k} \X ConcurrentRequests(k) : k \in Endpoints}

BlockCallsMade ==
    {<<"personal-color", Or(r.personal, PersonalColorRequestDefault)>> :
        r \in {x \in ConcurrentRequests("comprehensive") : x.personal # NoneObj}}
    \cup {<<"sensitivity", Or(r.sensitivity, SensitivityRequestDefault)>> :
        r \in {x \in ConcurrentRequests("comprehensive") : x.sensitivity # NoneObj}}

\* EngineResult on the non-empty set S of calls, held as a table.
RECURSIVE RunAloneOn(_)
RunAloneOn(S) ==
    LET c == CHOOSE x \in S : TRUE
        entry == c :> EngineResult(c[1], c[2])
    IN  IF S = {c} THEN entry ELSE entry @@ RunAloneOn(S \ {c})

\* The result of each call when it is run alone: the engine function (for
\* the comprehensive endpoint the handler body) applied to its input in one
\* piece, with no other call in the system.
RunAlone == RunAloneOn(CallsMade \cup BlockCallsMade)

\* C10: the engine keeps no state between or across calls.  In any
\* interleaving of concurrent personal-color, sensitivity and comprehensive
\* requests each request's result is a function of its own input only: it
\* equals the result of running that request alone, also while it is being
\* built (the lowered reactions are those of the call's own list, the flags
\* and the avoid entries collected so far are an initial part of what the
\* call collects when run alone, the undertone and season are those of its
\* own input, the sub-results of a comprehensive call are those of its own
\* blocks); and every answer ever given to a request, whatever calls came
\* before or ran beside it, is the same.
C10_ResultIsOwnRunAlone ==
    /\ \A e \in served : e.response = HttpOk(RunAlone[<<e.kind, e.req>>])
    /\ \A a \in served : \A b \in served :
            (a.kind = b.kind /\ a.req = b.req) => a.response = b.response
    /\ \A w \in Workers :
        /\ res[w] # NoneObj => res[w] = RunAlone[<<kind[w], req[w]>>]
        /\ response[w] # NoneObj => response[w] = HttpOk(RunAlone[<<kind[w], req[w]>>])
        /\ pc[w] \in InSensitivity =>
            LET r == SensitivityArg(w)
                alone == FragranceRule(r, locals[w].low).avoid
                         \o AcneRule(r, locals[w].low).avoid
                         \o SkinTypeRule(r).avoid
                         \o ReactionRule(locals[w].low).avoid
            IN  /\ DOMAIN locals[w].low = DOMAIN r.ingredients_reactions
                /\ \A i \in DOMAIN locals[w].low :
                        locals[w].low[i] = lower(r.ingredients_reactions[i])
                /\ IsPrefix(locals[w].flags, RunAlone[<<"sensitivity", r>>].flags)
                /\ IsPrefix(locals[w].avoid, alone)
        /\ pc[w] = "sorted" =>
                /\ locals[w].flags = RunAlone[<<"sensitivity", SensitivityArg(w)>>].flags
                /\ DedupSorted(locals[w].avoid)
                        = RunAlone[<<"sensitivity", SensitivityArg(w)>>].avoid_ingredients
        /\ pc[w] \in {"s", "p"} =>
                locals[w].u = RunAlone[<<"personal-color", PersonalArg(w)>>].undertone
        /\ pc[w] = "p" =>
                locals[w].s = RunAlone[<<"personal-color", PersonalArg(w)>>].season
        /\ locals[w].personal_res # NoneObj =>
                locals[w].personal_res = RunAlone[<<"personal-color", PersonalArg(w)>>]
        /\ locals[w].sensi_res # NoneObj =>
                locals[w].sensi_res = RunAlone[<<"sensitivity", SensitivityArg(w)>>]

\* Three requests: a sensitivity request was answered, released, sent again
\* and answered again with the same response (the only answer on record),
\* while a comprehensive request with other blocks is in the middle of its
\* own analyze_sensitivity call, holding its personal result and flags that
\* are not those of the answered request.
C10_Witness ==
    \E w \in Workers : \E v \in Workers :
        /\ w # v
        /\ nreq = 3
        /\ pc[w] = "done"
        /\ kind[w] = "sensitivity"
        /\ response[w].body.flags = <<"acne_prone", "oily_skin">>
        /\ served = {[kind |-> kind[w], req |-> req[w], response |-> response[w]]}
        /\ kind[v] = "comprehensive"
        /\ pc[v] = "reactions"
        /\ locals[v].personal_res # NoneObj
        /\ locals[v].flags = <<"fragrance_sensitive", "dry_skin">>
        /\ locals[v].avoid = <<"fragrance", "high alcohol">>

=============================================================================
